---- MODULE Spec2Model ----
(***************************************************************************)
(* Huffman coding pipeline of main.cpp: frequency table, greedy tree       *)
(* construction on a min-heap, code generation, encode, decode, verify.    *)
(* Characters are one-character strings, strings and bitstrings are        *)
(* sequences, Node* values are indices into the arena `nodes`.             *)
(***************************************************************************)
EXTENDS Integers, Sequences, FiniteSets

\* ------------------------------------------------------------------ bounds
\* number of ordinary letters in the input alphabet of Spec / SpecDecode
NumSyms == 2
\* longest input line of Spec / SpecDecode
MaxLen == 5
\* number of ordinary letters in the input alphabet of SpecTree
NumTreeSyms == 3
\* largest occurrence count of one character in the inputs of SpecTree
MaxFreq == 3

Letters == <<"a", "b", "c", "d", "e", "f">>

\* ------------------------------------------------------- program constants
\* nullptr
NULL == 0
\* a pointer value that designates no Node (what reading the top of an empty
\* heap may yield)
WILD == 0 - 1
\* '\0', the character stored in merged nodes
NUL == "NUL"
\* ' '
SPACE == " "
\* '-', the character under which spaces are counted and encoded
SENTINEL == "-"

VARIABLES
    input,          \* main: string input
    frequency,      \* main: unordered_map<char,int> frequency
    nodes,          \* the Nodes allocated by `new Node`, in allocation order
    minHeap,        \* buildHuffmanTree: priority_queue<Node*> minHeap
    root,           \* main: Node* root
    huffmanCodes,   \* main: unordered_map<char,string> huffmanCodes
    encodedString,  \* main: string encodedString
    decodedString,  \* main: string decodedString
    current,        \* decode: Node* current when decode returns
    verified,       \* main: decodedString == input
    pc              \* position of main in its loop body

vars == <<input, frequency, nodes, minHeap, root, huffmanCodes,
          encodedString, decodedString, current, verified, pc>>

\* ----------------------------------------------------------------- helpers
Range(s) == {s[i] : i \in DOMAIN s}

EmptyMap == [x \in {} |-> 0]

\* m[k] = v, inserting k when absent
Put(m, k, v) == [x \in DOMAIN m \cup {k} |-> IF x = k THEN v ELSE m[x]]

IsPrefix(s, t) == Len(s) <= Len(t) /\ SubSeq(t, 1, Len(s)) = s

RECURSIVE Rep(_, _)
Rep(c, n) == IF n = 0 THEN <<>> ELSE <<c>> \o Rep(c, n - 1)

RECURSIVE StringsUpTo(_, _)
StringsUpTo(A, n) ==
    IF n = 0 THEN {<<>>}
    ELSE LET S == StringsUpTo(A, n - 1)
         IN  S \cup {Append(s, c) : s \in {t \in S : Len(t) = n - 1}, c \in A}

\* ------------------------------------------------------ buildFrequencyTable
\* the key under which a character is counted and encoded
Key(ch) == IF ch = SPACE THEN SENTINEL ELSE ch

RECURSIVE FreqLoop(_, _, _)
FreqLoop(s, i, f) ==
    IF i > Len(s) THEN f
    ELSE LET k == Key(s[i])
         IN  FreqLoop(s, i + 1, Put(f, k, IF k \in DOMAIN f THEN f[k] + 1 ELSE 1))

buildFrequencyTable(s) == FreqLoop(s, 1, EmptyMap)

\* ----------------------------------------------------------------- Node
Node(character, frequency_) ==
    [ch |-> character, freq |-> frequency_, left |-> NULL, right |-> NULL]

IsLeaf(n) == nodes[n].left = NULL /\ nodes[n].right = NULL

\* mutation of Compare: the comparison turned round (a max-heap)
CompareLess(a, b) == nodes[a].freq < nodes[b].freq

\* Compare::operator()
Compare(a, b) == nodes[a].freq > nodes[b].freq

\* the nodes priority_queue::top() may return: those no other node is ordered
\* before; which of several equal-frequency nodes is on top depends on the
\* iteration order of the unordered_map and on the heap algorithm
Tops(h) == {x \in h : \A y \in h : ~Compare(x, y)}

\* the leaves pushed by the first loop of buildHuffmanTree, in allocation order
RECURSIVE LeafSeq(_)
LeafSeq(S) ==
    IF S = {} THEN <<>>
    ELSE LET c == CHOOSE x \in S : TRUE
         IN  <<Node(c, frequency[c])>> \o LeafSeq(S \ {c})

\* mutation of Merged: the merged node takes the frequency of its left child
MergedLeftFreq(l, r) ==
    [ch |-> NUL, freq |-> nodes[l].freq, left |-> l, right |-> r]

\* the node built by one iteration of the merge loop
Merged(l, r) ==
    [ch |-> NUL, freq |-> nodes[l].freq + nodes[r].freq, left |-> l, right |-> r]

\* mutation of LoopCond: the loop stops one merge early
LoopCondEarly(h) == Cardinality(h) > 2

\* while (minHeap.size() > 1)
LoopCond(h) == Cardinality(h) > 1

\* ---------------------------------------------------- generateHuffmanCodes
\* mutation of RightCode: the right branch appends the bit of the left one
RightCodeZero(code) == Append(code, "0")

LeftCode(code) == Append(code, "0")

RightCode(code) == Append(code, "1")

RECURSIVE generateHuffmanCodes(_, _, _)
generateHuffmanCodes(n, code, m) ==
    IF n = NULL THEN m
    ELSE LET m1 == IF IsLeaf(n) THEN Put(m, nodes[n].ch, code) ELSE m
             m2 == generateHuffmanCodes(nodes[n].left, LeftCode(code), m1)
         IN  generateHuffmanCodes(nodes[n].right, RightCode(code), m2)

\* ------------------------------------------------------------------ encode
\* huffmanCodes.at(ch) throws std::out_of_range for a missing key
CanEncode(s, codes) == \A i \in DOMAIN s : Key(s[i]) \in DOMAIN codes

RECURSIVE EncodeLoop(_, _, _, _)
EncodeLoop(s, i, codes, out) ==
    IF i > Len(s) THEN out
    ELSE EncodeLoop(s, i + 1, codes, out \o codes[Key(s[i])])

encode(s, codes) == EncodeLoop(s, 1, codes, <<>>)

\* ------------------------------------------------------------------ decode
\* mutation of LeafChar: the sentinel is not turned back into a space
LeafCharRaw(ch) == ch

\* (current->ch == '-') ? ' ' : current->ch
LeafChar(ch) == IF ch = SENTINEL THEN SPACE ELSE ch

\* the loop of decode from bit i on; ok is FALSE when the walk dereferences a
\* pointer that is no Node
RECURSIVE DecodeLoop(_, _, _, _, _)
DecodeLoop(bits, i, rt, cur, out) ==
    IF i > Len(bits) THEN [ok |-> TRUE, out |-> out, cur |-> cur]
    ELSE IF cur \notin DOMAIN nodes THEN [ok |-> FALSE, out |-> out, cur |-> cur]
    ELSE LET nxt == IF bits[i] = "0" THEN nodes[cur].left ELSE nodes[cur].right
         IN  IF nxt \notin DOMAIN nodes THEN [ok |-> FALSE, out |-> out, cur |-> nxt]
             ELSE IF IsLeaf(nxt)
                  THEN DecodeLoop(bits, i + 1, rt, rt, Append(out, LeafChar(nodes[nxt].ch)))
                  ELSE DecodeLoop(bits, i + 1, rt, nxt, out)

decode(bits, rt) == DecodeLoop(bits, 1, rt, rt, <<>>)

\* ------------------------------------------------------------------- Init
Alphabet == {Letters[i] : i \in 1..NumSyms} \cup {SPACE, SENTINEL}

Inputs == StringsUpTo(Alphabet, MaxLen)

\* input lines a^i b^j ... ' '^k with every count in 0..MaxFreq
TreeLetters == [i \in 1..(NumTreeSyms + 1) |->
                   IF i <= NumTreeSyms THEN Letters[i] ELSE SPACE]

RECURSIVE Blocks(_, _)
Blocks(cnt, i) ==
    IF i > NumTreeSyms + 1 THEN <<>>
    ELSE Rep(TreeLetters[i], cnt[i]) \o Blocks(cnt, i + 1)

TreeInputs == {Blocks(cnt, 1) : cnt \in [1..(NumTreeSyms + 1) -> 0..MaxFreq]}

Start(s) ==
    /\ input = s
    /\ frequency = EmptyMap
    /\ nodes = <<>>
    /\ minHeap = {}
    /\ root = NULL
    /\ huffmanCodes = EmptyMap
    /\ encodedString = <<>>
    /\ decodedString = <<>>
    /\ current = NULL
    /\ verified = FALSE
    /\ pc = "freq"

Init == \E s \in Inputs : Start(s)

InitTree == \E s \in TreeInputs : Start(s)

\* ---------------------------------------------------------------- actions
\* main, step 2
BuildFrequencyTable ==
    /\ pc = "freq"
    /\ frequency' = buildFrequencyTable(input)
    /\ pc' = "push"
    /\ UNCHANGED <<input, nodes, minHeap, root, huffmanCodes, encodedString,
                   decodedString, current, verified>>

\* buildHuffmanTree: the loop pushing one leaf per entry of the map
\* (the order of allocation stands for no behaviour of its own: which of
\* several equal-frequency nodes a pop yields is left open by Tops)
PushLeaves ==
    /\ pc = "push"
    /\ nodes' = LeafSeq(DOMAIN frequency)
    /\ minHeap' = 1..Cardinality(DOMAIN frequency)
    /\ pc' = "merge"
    /\ UNCHANGED <<input, frequency, root, huffmanCodes, encodedString,
                   decodedString, current, verified>>

\* buildHuffmanTree: one iteration of the merge loop
MergeStep ==
    /\ pc = "merge"
    /\ LoopCond(minHeap)
    /\ \E l \in Tops(minHeap) :
         \E r \in Tops(minHeap \ {l}) :
            /\ nodes' = Append(nodes, Merged(l, r))
            /\ minHeap' = (minHeap \ {l, r}) \cup {Len(nodes) + 1}
    /\ UNCHANGED <<input, frequency, root, huffmanCodes, encodedString,
                   decodedString, current, verified, pc>>

\* buildHuffmanTree: return minHeap.top() of a non-empty heap
ReturnTop ==
    /\ pc = "merge"
    /\ ~LoopCond(minHeap)
    /\ minHeap # {}
    /\ root' \in Tops(minHeap)
    /\ pc' = "codes"
    /\ UNCHANGED <<input, frequency, nodes, minHeap, huffmanCodes, encodedString,
                   decodedString, current, verified>>

\* buildHuffmanTree: return minHeap.top() of an empty heap, which is undefined:
\* the process dies, or some pointer value comes back
ReturnTopEmpty ==
    /\ pc = "merge"
    /\ ~LoopCond(minHeap)
    /\ minHeap = {}
    /\ \E outcome \in {"crash", "null", "wild"} :
         /\ pc' = IF outcome = "crash" THEN "crash" ELSE "codes"
         /\ root' = IF outcome = "wild" THEN WILD ELSE NULL
    /\ UNCHANGED <<input, frequency, nodes, minHeap, huffmanCodes, encodedString,
                   decodedString, current, verified>>

\* main, step 4; a root that is neither null nor a Node cannot be read
GenerateCodes ==
    /\ pc = "codes"
    /\ IF root # NULL /\ root \notin DOMAIN nodes
       THEN pc' = "crash" /\ UNCHANGED huffmanCodes
       ELSE /\ huffmanCodes' = generateHuffmanCodes(root, <<>>, EmptyMap)
            /\ pc' = "encode"
    /\ UNCHANGED <<input, frequency, nodes, minHeap, root, encodedString,
                   decodedString, current, verified>>

\* main, step 5; an uncaught std::out_of_range ends the process
Encode ==
    /\ pc = "encode"
    /\ IF CanEncode(input, huffmanCodes)
       THEN encodedString' = encode(input, huffmanCodes) /\ pc' = "decode"
       ELSE pc' = "crash" /\ UNCHANGED encodedString
    /\ UNCHANGED <<input, frequency, nodes, minHeap, root, huffmanCodes,
                   decodedString, current, verified>>

\* decode(bits, root)
DecodeBits(bits) ==
    /\ pc = "decode"
    /\ LET r == decode(bits, root)
       IN  IF r.ok
           THEN decodedString' = r.out /\ current' = r.cur /\ pc' = "verify"
           ELSE pc' = "crash" /\ UNCHANGED <<decodedString, current>>
    /\ UNCHANGED <<input, frequency, nodes, minHeap, root, huffmanCodes,
                   encodedString, verified>>

\* main, step 6
Decode == DecodeBits(encodedString)

\* decode called on an encoding whose end is cut off
DecodeTruncated ==
    \E k \in 0..(Len(encodedString) - 1) : DecodeBits(SubSeq(encodedString, 1, k))

\* main: if (decodedString == input)
Verify ==
    /\ pc = "verify"
    /\ verified' = (decodedString = input)
    /\ pc' = "done"
    /\ UNCHANGED <<input, frequency, nodes, minHeap, root, huffmanCodes,
                   encodedString, decodedString, current>>

Next ==
    \/ BuildFrequencyTable
    \/ PushLeaves
    \/ MergeStep
    \/ ReturnTop
    \/ ReturnTopEmpty
    \/ GenerateCodes
    \/ Encode
    \/ Decode
    \/ Verify

NextDecode == Next \/ DecodeTruncated

\* the pipeline on every input line up to MaxLen characters
Spec == Init /\ [][Next]_vars

\* the pipeline on input lines with given occurrence counts
SpecTree == InitTree /\ [][Next]_vars

\* decode also given truncated encodings
SpecDecode == Init /\ [][NextDecode]_vars

\* ------------------------------------------------------- claim vocabulary
Built == pc \in {"codes", "encode", "decode", "verify", "done"}

Coded == pc \in {"encode", "decode", "verify", "done"}

NumEntries == Cardinality(DOMAIN frequency)

Count(s, c) == Cardinality({i \in DOMAIN s : s[i] = c})

\* n is the root of a strict binary tree whose merged nodes carry the sum of
\* their children's frequencies
RECURSIVE WellFormed(_)
WellFormed(n) ==
    /\ n \in DOMAIN nodes
    /\ \/ IsLeaf(n)
       \/ /\ nodes[n].left # NULL
          /\ nodes[n].right # NULL
          /\ WellFormed(nodes[n].left)
          /\ WellFormed(nodes[n].right)
          /\ nodes[n].freq = nodes[nodes[n].left].freq + nodes[nodes[n].right].freq

RECURSIVE LeafSet(_)
LeafSet(n) ==
    IF n \notin DOMAIN nodes THEN {}
    ELSE IF IsLeaf(n) THEN {<<nodes[n].ch, nodes[n].freq>>}
    ELSE LeafSet(nodes[n].left) \cup LeafSet(nodes[n].right)

RECURSIVE LeafCount(_)
LeafCount(n) ==
    IF n \notin DOMAIN nodes THEN 0
    ELSE IF IsLeaf(n) THEN 1
    ELSE LeafCount(nodes[n].left) + LeafCount(nodes[n].right)

RECURSIVE HeapLeafCount(_)
HeapLeafCount(h) ==
    IF h = {} THEN 0
    ELSE LET x == CHOOSE y \in h : TRUE IN LeafCount(x) + HeapLeafCount(h \ {x})

RECURSIVE SumCounts(_)
SumCounts(S) ==
    IF S = {} THEN 0
    ELSE LET c == CHOOSE x \in S : TRUE IN frequency[c] + SumCounts(S \ {c})

FreqEntries == {<<c, frequency[c]>> : c \in DOMAIN frequency}

\* ------------------------------------------------------------------ claims
\* C1: for every input the decoded string equals the input (round trip),
\* the empty string, one-character strings and strings of one repeated
\* character included.
RoundTrip == pc = "done" => decodedString = input

\* C2: for a non-empty frequency map, no code of the generated code map is a
\* prefix of the code of another symbol.
PrefixFree ==
    (Coded /\ NumEntries > 0) =>
        /\ DOMAIN huffmanCodes = DOMAIN frequency
        /\ \A a \in DOMAIN huffmanCodes : \A b \in DOMAIN huffmanCodes :
              a # b => ~IsPrefix(huffmanCodes[a], huffmanCodes[b])

PrefixFreeWitness ==
    /\ pc = "encode"
    /\ NumEntries >= 3
    /\ \E a \in DOMAIN huffmanCodes : \E b \in DOMAIN huffmanCodes :
          Len(huffmanCodes[a]) < Len(huffmanCodes[b])

\* C3: for an input of one distinct symbol the code map has exactly one entry
\* and its code is at least one bit long.
SingleSymbolCode ==
    (Coded /\ NumEntries = 1) =>
        /\ Cardinality(DOMAIN huffmanCodes) = 1
        /\ \A c \in DOMAIN huffmanCodes : Len(huffmanCodes[c]) >= 1

\* C4: decode never returns normally from a bitstring that leaves its cursor
\* away from the root (a bitstring ending in the middle of a code).
MalformedRejected == pc \in {"verify", "done"} => current = root

\* C5: buildHuffmanTree on an empty frequency map ends in the InvalidInput
\* error outcome.
EmptyRejected ==
    (NumEntries = 0 /\ pc \notin {"freq", "push", "merge"}) => pc = "InvalidInput"

\* C6: an input with a space, another distinct symbol and no '-' is decoded
\* to exactly the input, the spaces being counted under '-'.
SentinelRoundTrip ==
    (/\ SPACE \in Range(input)
     /\ SENTINEL \notin Range(input)
     /\ Cardinality(Range(input)) >= 2) =>
        /\ pc # "crash"
        /\ pc \notin {"freq"} => /\ SENTINEL \in DOMAIN frequency
                                 /\ frequency[SENTINEL] = Count(input, SPACE)
                                 /\ SPACE \notin DOMAIN frequency
        /\ pc \in {"verify", "done"} => decodedString = input
        /\ pc = "done" => verified

SentinelRoundTripWitness ==
    /\ pc = "done"
    /\ input = <<"a", SPACE, "b">>
    /\ decodedString = input

\* C7: a symbol with a strictly higher count never has a strictly longer
\* code.
WeightedLength ==
    Coded =>
        \A a \in DOMAIN huffmanCodes : \A b \in DOMAIN huffmanCodes :
            (a \in DOMAIN frequency /\ b \in DOMAIN frequency
                /\ frequency[a] > frequency[b]) =>
                    Len(huffmanCodes[a]) <= Len(huffmanCodes[b])

WeightedLengthWitness ==
    /\ pc = "encode"
    /\ NumEntries >= 4
    /\ \E a \in DOMAIN huffmanCodes : \E b \in DOMAIN huffmanCodes :
          /\ frequency[a] > frequency[b]
          /\ Len(huffmanCodes[a]) < Len(huffmanCodes[b])
    /\ \E a \in DOMAIN huffmanCodes : \E b \in DOMAIN huffmanCodes :
          /\ frequency[a] > frequency[b]
          /\ Len(huffmanCodes[a]) = Len(huffmanCodes[b])

\* C8: when the input contains '-', the '-' entry counts the '-' and the
\* spaces together, every '-' of the input is decoded as a space (the other
\* characters as themselves), and the decoded string differs from the input.
SentinelCollision ==
    (pc = "done" /\ SENTINEL \in Range(input)) =>
        /\ frequency[SENTINEL] = Count(input, SENTINEL) + Count(input, SPACE)
        /\ decodedString = [i \in DOMAIN input |-> LeafChar(input[i])]
        /\ decodedString # input

\* C9: during and after the merge loop on a non-empty frequency map every
\* heap node roots a strict binary tree with summed frequencies, the leaves
\* of the heap trees are exactly the map's entries, each once, and the
\* returned root carries the sum of all counts.
TreeShape ==
    (NumEntries > 0 /\ (pc = "merge" \/ Built)) =>
        /\ \A h \in minHeap : WellFormed(h)
        /\ HeapLeafCount(minHeap) = NumEntries
        /\ UNION {LeafSet(h) : h \in minHeap} = FreqEntries
        /\ Built => /\ root \in minHeap
                    /\ nodes[root].freq = SumCounts(DOMAIN frequency)
                    /\ nodes[root].freq = Len(input)

TreeShapeWitness ==
    /\ pc = "merge"
    /\ NumEntries >= 4
    /\ Cardinality(minHeap) = 2
    /\ \A h \in minHeap : ~IsLeaf(h)

\* C10: each iteration of the merge loop takes two distinct heap nodes whose
\* frequencies are no greater than any node left, puts their merge back and
\* so shrinks the heap by one; the loop ends, after exactly n-1 merges for n
\* entries, with the single remaining node returned as the root.
GreedyStep ==
    (pc = "merge" /\ nodes' # nodes) =>
        LET m == nodes'[Len(nodes')]
            rest == minHeap \ {m.left, m.right}
        IN  /\ Len(nodes') = Len(nodes) + 1
            /\ {m.left, m.right} \subseteq minHeap
            /\ m.left # m.right
            /\ \A h \in rest : /\ nodes[m.left].freq <= nodes[h].freq
                               /\ nodes[m.right].freq <= nodes[h].freq
            /\ minHeap' = rest \cup {Len(nodes')}
            /\ Cardinality(minHeap') = Cardinality(minHeap) - 1

\* in the loop the merges done and the nodes left always add up to n, and
\* the loop can either merge again or return
GreedyProgress ==
    (pc = "merge" /\ NumEntries >= 1) =>
        /\ (Len(nodes) - NumEntries) + Cardinality(minHeap) = NumEntries
        /\ Cardinality(minHeap) >= 1
        /\ (ENABLED MergeStep) \/ (ENABLED ReturnTop)

GreedyFinal ==
    (Built /\ NumEntries >= 1) =>
        /\ Len(nodes) - NumEntries = NumEntries - 1
        /\ minHeap = {root}

GreedyMergeLoop ==
    /\ [][GreedyStep]_vars
    /\ [](GreedyProgress)
    /\ [](GreedyFinal)

GreedyMergeLoopWitness ==
    /\ pc = "codes"
    /\ NumEntries >= 4
    /\ Len(nodes) = 2 * NumEntries - 1
    /\ \E h \in DOMAIN nodes : ~IsLeaf(h) /\ nodes[h].freq > nodes[nodes[h].left].freq

====
